---------------------------- MODULE Spec2Model ----------------------------
(***************************************************************************)
(* Simulation and summarisation core of the nordic-financial-planner:     *)
(* MonteCarloEngine (simulation/monteCarloEngine.js), HistogramBinner      *)
(* (the class in simulation/taxCalculator.js) and Statistics (the class in *)
(* components/InputPanel.jsx).                                             *)
(*                                                                         *)
(* JavaScript numbers are modelled as exact rationals [num, den] in lowest *)
(* terms with den > 0; den = 0 stands for the non-finite results of a      *)
(* division by zero (0/0 = NaN, x/0 = +-Infinity).  IEEE-754 rounding is   *)
(* not modelled: every arithmetic result is the exact value.               *)
(***************************************************************************)
EXTENDS Integers, Sequences, FiniteSets, TLC

VARIABLES
    returns,          \* this.returns: the historical annual returns of the engine
    params,           \* the params record of the current run
    mode,             \* "plain" (runSimulation) or "timeSeries" (runSimulationWithTimeSeries)
    pc,               \* "idle", "loop" (inside the for loop), "done" (returned), "failed" (threw)
    i,                \* the loop variable of the trial loop
    stockResults,     \* local array stockResults
    mortgageResults,  \* local array mortgageResults
    stockPaths,       \* local array stockPaths (time-series mode)
    mortgagePath,     \* calculateMortgagePath's array (time-series mode)
    drawn,            \* the return path generated for each trial so far
    impl,             \* which outperformance function is called
    data1,            \* first argument of the outperformance functions
    data2,            \* second argument of the outperformance functions
    outAB,            \* outcome of the call with (data1, data2)
    outBA,            \* outcome of the call with (data2, data1)
    data,             \* binData's argument data
    numBinsArg,       \* binData's argument numBins (null when omitted)
    binOut,           \* outcome of binData(data, numBins)
    timeSeriesData,   \* useSimulation's timeSeriesData built from a time-series run
    comparison,       \* useSimulation's comparison record built from a time-series run
    coll,             \* the collection handed to the statistics functions (or null)
    outStatistics,    \* outcome of HistogramBinner.calculateStatistics(coll)
    outSummary,       \* outcome of Statistics.summarize(coll)
    outPercentiles,   \* outcome of HistogramBinner.calculatePercentiles(coll)
    outPercentile,    \* outcomes of Statistics.percentile(sorted coll, p) for the five p
    outBins,          \* outcome of HistogramBinner.binData(coll)
    outBand,          \* outcome of computeTimeSeriesBands on coll as the only column
    matrix,           \* computeTimeSeriesBands' argument paths
    yearsArg,         \* computeTimeSeriesBands' argument years
    bandsOut,         \* outcome of computeTimeSeriesBands(matrix, yearsArg)
    payment,          \* calculateMortgageSavingsValue's argument monthlyPayment
    yearsIn,          \* calculateMortgageSavingsValue's argument years
    rateIn,           \* calculateMortgageSavingsValue's argument annualRate
    savingsOut,       \* outcome of calculateMortgageSavingsValue(payment, yearsIn, rateIn)
    pathYears,        \* generateReturnPath's argument years
    pathOut,          \* outcome of generateReturnPath(pathYears)
    stockAllocation,  \* useSimulation's state stockAllocation
    sliderValue,      \* InputPanel's state sliderValue
    debouncedValue,   \* useDebounce's state debouncedValue
    timers,           \* the browser's pending timeouts, each with the value its callback captured
    handler,          \* the timeout the cleanup of useDebounce's latest effect will clear
    effectDeps,       \* debouncedSliderValue as InputPanel's effect last ran with it
    shown,            \* every value the slider label has displayed
    emitted           \* every value onStockAllocationChange has been called with

engineVars == <<returns, params, mode, pc, i, stockResults, mortgageResults,
                stockPaths, mortgagePath, drawn, timeSeriesData,
                comparison>>
probVars == <<impl, data1, data2, outAB, outBA>>
binVars == <<data, numBinsArg, binOut>>
statVars == <<coll, outStatistics, outSummary, outPercentiles, outPercentile,
              outBins, outBand>>
bandVars == <<matrix, yearsArg, bandsOut>>
savingsVars == <<payment, yearsIn, rateIn, savingsOut>>
pathVars == <<pathYears, pathOut>>
debounceVars == <<stockAllocation, sliderValue, debouncedValue, timers, handler,
                  effectDeps, shown, emitted>>
vars == <<engineVars, probVars, binVars, statVars, bandVars, savingsVars, pathVars,
          debounceVars>>

----------------------------------------------------------------------------
(* Numbers *)

Abs(x) == IF x < 0 THEN -x ELSE x

RECURSIVE GCD(_, _)
GCD(a, b) == IF b = 0 THEN a ELSE GCD(b, a % b)

\* The number n/d; d = 0 gives NaN (0/0) or a signed infinity.
Rat(n, d) ==
    IF d = 0
    THEN [num |-> IF n > 0 THEN 1 ELSE IF n < 0 THEN -1 ELSE 0, den |-> 0]
    ELSE LET s == IF d < 0 THEN -1 ELSE 1
             g == GCD(Abs(n), Abs(d))
         IN  [num |-> (s * n) \div g, den |-> (s * d) \div g]

R(k) == Rat(k, 1)
Zero == R(0)
One == R(1)

RAdd(x, y) == Rat(x.num * y.den + y.num * x.den, x.den * y.den)
RSub(x, y) == Rat(x.num * y.den - y.num * x.den, x.den * y.den)
RMul(x, y) == Rat(x.num * y.num, x.den * y.den)
RDiv(x, y) == Rat(x.num * y.den, x.den * y.num)
RLt(x, y) == x.num * y.den < y.num * x.den
RLe(x, y) == x.num * y.den <= y.num * x.den
RGt(x, y) == RLt(y, x)
RMax(x, y) == IF RLt(x, y) THEN y ELSE x
RFloor(x) == x.num \div x.den
RCeil(x) == -((-x.num) \div x.den)

\* Math.pow(base, k) for an integer exponent k >= 0
RECURSIVE RPow(_, _)
RPow(base, k) == IF k = 0 THEN One ELSE RMul(base, RPow(base, k - 1))

----------------------------------------------------------------------------
(* JavaScript arrays: a length and the elements of the indices that have   *)
(* been assigned (0-based); new Array(n) has length n and no element.      *)

NewArray(n) == [length |-> n, at |-> <<>>]
ArraySet(arr, idx, v) ==
    [length |-> IF idx >= arr.length THEN idx + 1 ELSE arr.length,
     at |-> (idx :> v) @@ arr.at]
Filled(arr) == DOMAIN arr.at = 0 .. (arr.length - 1)

\* the JavaScript array holding the elements of the sequence seq
ArrayOf(seq) ==
    [length |-> Len(seq), at |-> [k \in 0 .. (Len(seq) - 1) |-> seq[k + 1]]]

\* the elements of an array without holes, in index order
SeqOf(arr) == [k \in 1 .. arr.length |-> arr.at[k - 1]]

\* the values undefined and null
Undefined == [undefined |-> TRUE]
Null == [isNull |-> TRUE]

----------------------------------------------------------------------------
(* MonteCarloEngine *)

NORWEGIAN_TAX_RATE == Rat(3784, 10000)

\* faulty variant: the horizon in years is used as the number of months
calculateMortgageSavingsValue_YearsAsMonths(monthlyPayment, years, annualRate) ==
    LET monthlyRate == RDiv(annualRate, R(12))
        totalMonths == years
    IN  IF monthlyRate = Zero
        THEN RMul(monthlyPayment, R(totalMonths))
        ELSE RMul(monthlyPayment,
                  RDiv(RSub(RPow(RAdd(One, monthlyRate), totalMonths), One),
                       monthlyRate))

calculateMortgageSavingsValue(monthlyPayment, years, annualRate) ==
    LET monthlyRate == RDiv(annualRate, R(12))
        totalMonths == years * 12
    IN  IF monthlyRate = Zero
        THEN RMul(monthlyPayment, R(totalMonths))
        ELSE RMul(monthlyPayment,
                  RDiv(RSub(RPow(RAdd(One, monthlyRate), totalMonths), One),
                       monthlyRate))

\* faulty variant: only the part of the surplus not allocated to stocks is saved
calculateMortgageScenario_UsesAllocation(monthlyAmount, years, mortgageRate) ==
    calculateMortgageSavingsValue(
        RMul(monthlyAmount, RSub(One, Rat(params.stockAllocation, 100))),
        years, mortgageRate)

calculateMortgageScenario(monthlyAmount, years, mortgageRate) ==
    calculateMortgageSavingsValue(monthlyAmount, years, mortgageRate)

\* faulty variant: stockValue is not reset between trials, it starts from
\* the previous trial's outcome
RECURSIVE StockLoop_SharedAccumulator(_, _, _)
StockLoop_SharedAccumulator(monthlyToStock, rets, year) ==
    IF year = 0
    THEN [stockValue |-> IF i > 0 THEN stockResults.at[i - 1] ELSE Zero,
          totalInvested |-> Zero]
    ELSE LET prev == StockLoop_SharedAccumulator(monthlyToStock, rets, year - 1)
             annualContribution == RMul(monthlyToStock, R(12))
         IN  [stockValue |->
                  RMul(RAdd(prev.stockValue, annualContribution),
                       RAdd(One, rets[year])),
              totalInvested |-> RAdd(prev.totalInvested, annualContribution)]

\* The year loop of both stock valuators: the locals after `year` iterations
\* over the sequence rets (the return of JS index k is rets[k+1]).
RECURSIVE StockLoop(_, _, _)
StockLoop(monthlyToStock, rets, year) ==
    IF year = 0
    THEN [stockValue |-> Zero, totalInvested |-> Zero]
    ELSE LET prev == StockLoop(monthlyToStock, rets, year - 1)
             annualContribution == RMul(monthlyToStock, R(12))
         IN  [stockValue |->
                  RMul(RAdd(prev.stockValue, annualContribution),
                       RAdd(One, rets[year])),
              totalInvested |-> RAdd(prev.totalInvested, annualContribution)]

\* faulty variant: the mortgage share is taken as monthlyAmount * allocation
calculateStockScenario_NoSplit(monthlyAmount, allocation, rets, mortgageRate, years) ==
    LET monthlyToStock == RMul(monthlyAmount, allocation)
        monthlyToMortgage == RMul(monthlyAmount, allocation)
        end == StockLoop(monthlyToStock, rets, Len(rets))
        capitalGains == RMax(Zero, RSub(end.stockValue, end.totalInvested))
        tax == RMul(capitalGains, NORWEGIAN_TAX_RATE)
        afterTaxStockValue == RSub(end.stockValue, tax)
        mortgageSavings ==
            calculateMortgageSavingsValue(monthlyToMortgage, years, mortgageRate)
    IN  RAdd(afterTaxStockValue, mortgageSavings)

\* faulty variant: the whole surplus is also counted as mortgage savings
calculateStockScenario_WholeSurplusSaved(monthlyAmount, allocation, rets, mortgageRate, years) ==
    LET monthlyToStock == RMul(monthlyAmount, allocation)
        monthlyToMortgage == monthlyAmount
        end == StockLoop(monthlyToStock, rets, Len(rets))
        capitalGains == RMax(Zero, RSub(end.stockValue, end.totalInvested))
        tax == RMul(capitalGains, NORWEGIAN_TAX_RATE)
        afterTaxStockValue == RSub(end.stockValue, tax)
        mortgageSavings ==
            calculateMortgageSavingsValue(monthlyToMortgage, years, mortgageRate)
    IN  RAdd(afterTaxStockValue, mortgageSavings)

\* faulty variant: a loss is taxed as well (a negative tax)
calculateStockScenario_TaxesLosses(monthlyAmount, allocation, rets, mortgageRate, years) ==
    LET monthlyToStock == RMul(monthlyAmount, allocation)
        monthlyToMortgage == RMul(monthlyAmount, RSub(One, allocation))
        end == StockLoop(monthlyToStock, rets, Len(rets))
        capitalGains == RSub(end.stockValue, end.totalInvested)
        tax == RMul(capitalGains, NORWEGIAN_TAX_RATE)
        afterTaxStockValue == RSub(end.stockValue, tax)
        mortgageSavings ==
            calculateMortgageSavingsValue(monthlyToMortgage, years, mortgageRate)
    IN  RAdd(afterTaxStockValue, mortgageSavings)

calculateStockScenario(monthlyAmount, allocation, rets, mortgageRate, years) ==
    LET monthlyToStock == RMul(monthlyAmount, allocation)
        monthlyToMortgage == RMul(monthlyAmount, RSub(One, allocation))
        end == StockLoop(monthlyToStock, rets, Len(rets))
        capitalGains == RMax(Zero, RSub(end.stockValue, end.totalInvested))
        tax == RMul(capitalGains, NORWEGIAN_TAX_RATE)
        afterTaxStockValue == RSub(end.stockValue, tax)
        mortgageSavings ==
            calculateMortgageSavingsValue(monthlyToMortgage, years, mortgageRate)
    IN  RAdd(afterTaxStockValue, mortgageSavings)

\* faulty variant: index 0 already holds the first year's contribution
RECURSIVE YearlyValues_StartsInvested(_, _, _, _)
YearlyValues_StartsInvested(monthlyToStock, rets, years, year) ==
    IF year = 0
    THEN ArraySet(NewArray(years + 1), 0, RMul(monthlyToStock, R(12)))
    ELSE ArraySet(YearlyValues_StartsInvested(monthlyToStock, rets, years, year - 1),
                  year, StockLoop(monthlyToStock, rets, year).stockValue)

\* yearlyValues = new Array(years + 1); [0] = 0; [year + 1] = stockValue
RECURSIVE YearlyValues(_, _, _, _)
YearlyValues(monthlyToStock, rets, years, year) ==
    IF year = 0
    THEN ArraySet(NewArray(years + 1), 0, Zero)
    ELSE ArraySet(YearlyValues(monthlyToStock, rets, years, year - 1), year,
                  StockLoop(monthlyToStock, rets, year).stockValue)

\* faulty variant: the final value is not taxed
calculateStockScenarioWithPath_Untaxed(monthlyAmount, allocation, rets, mortgageRate, years) ==
    LET monthlyToStock == RMul(monthlyAmount, allocation)
        monthlyToMortgage == RMul(monthlyAmount, RSub(One, allocation))
        end == StockLoop(monthlyToStock, rets, Len(rets))
        mortgageSavings ==
            calculateMortgageSavingsValue(monthlyToMortgage, years, mortgageRate)
    IN  [finalValue |-> RAdd(end.stockValue, mortgageSavings),
         yearlyValues |-> YearlyValues(monthlyToStock, rets, years, Len(rets))]

calculateStockScenarioWithPath(monthlyAmount, allocation, rets, mortgageRate, years) ==
    LET monthlyToStock == RMul(monthlyAmount, allocation)
        monthlyToMortgage == RMul(monthlyAmount, RSub(One, allocation))
        end == StockLoop(monthlyToStock, rets, Len(rets))
        capitalGains == RMax(Zero, RSub(end.stockValue, end.totalInvested))
        tax == RMul(capitalGains, NORWEGIAN_TAX_RATE)
        afterTaxStockValue == RSub(end.stockValue, tax)
        mortgageSavings ==
            calculateMortgageSavingsValue(monthlyToMortgage, years, mortgageRate)
    IN  [finalValue |-> RAdd(afterTaxStockValue, mortgageSavings),
         yearlyValues |-> YearlyValues(monthlyToStock, rets, years, Len(rets))]

\* faulty variant: the path compounds one month per year
RECURSIVE MortgagePathLoop_YearsAsMonths(_, _, _, _)
MortgagePathLoop_YearsAsMonths(monthlyPayment, years, annualRate, year) ==
    IF year = 0
    THEN ArraySet(NewArray(years + 1), 0, Zero)
    ELSE LET monthlyRate == RDiv(annualRate, R(12))
             totalMonths == year
             v == IF monthlyRate = Zero
                  THEN RMul(monthlyPayment, R(totalMonths))
                  ELSE RMul(monthlyPayment,
                            RDiv(RSub(RPow(RAdd(One, monthlyRate), totalMonths), One),
                                 monthlyRate))
         IN  ArraySet(MortgagePathLoop_YearsAsMonths(monthlyPayment, years, annualRate,
                                                     year - 1),
                      year, v)

\* path = new Array(years + 1); path[0] = 0; path[year] for year = 1 .. years
RECURSIVE MortgagePathLoop(_, _, _, _)
MortgagePathLoop(monthlyPayment, years, annualRate, year) ==
    IF year = 0
    THEN ArraySet(NewArray(years + 1), 0, Zero)
    ELSE LET monthlyRate == RDiv(annualRate, R(12))
             totalMonths == year * 12
             v == IF monthlyRate = Zero
                  THEN RMul(monthlyPayment, R(totalMonths))
                  ELSE RMul(monthlyPayment,
                            RDiv(RSub(RPow(RAdd(One, monthlyRate), totalMonths), One),
                                 monthlyRate))
         IN  ArraySet(MortgagePathLoop(monthlyPayment, years, annualRate, year - 1),
                      year, v)

calculateMortgagePath(monthlyPayment, years, annualRate) ==
    MortgagePathLoop(monthlyPayment, years, annualRate, IF years < 0 THEN 0 ELSE years)

\* faulty variant: the loop stops one year early
generateReturnPath_OneYearShort(years) ==
    [1 .. (years - 1) ->
        IF Len(returns) = 0 THEN {Undefined}
        ELSE {returns[k] : k \in 1 .. Len(returns)}]

\* generateReturnPath(years): every path the bootstrap sampling can produce.
\* randomIndex = Math.floor(Math.random() * this.returns.length) is any index
\* of this.returns; for an empty this.returns it is 0 and this.returns[0] is
\* undefined.
generateReturnPath(years) ==
    [1 .. years ->
        IF Len(returns) = 0 THEN {Undefined}
        ELSE {returns[k] : k \in 1 .. Len(returns)}]


----------------------------------------------------------------------------
(* Outcomes of a call: not made yet, returned a value, or threw an Error *)

Pending == [kind |-> "pending"]
Returned(v) == [kind |-> "returned", value |-> v]
Threw(msg) == [kind |-> "threw", error |-> msg]

----------------------------------------------------------------------------
(* Outperformance probability: HistogramBinner and Statistics *)

\* the value of `wins` after the first k iterations of the counting loop
RECURSIVE WinsLoop(_, _, _)
WinsLoop(d1, d2, k) ==
    IF k = 0 THEN 0
    ELSE WinsLoop(d1, d2, k - 1) + (IF RGt(d1[k], d2[k]) THEN 1 ELSE 0)

\* the same loop with >= in place of >
RECURSIVE WinsOrTiesLoop(_, _, _)
WinsOrTiesLoop(d1, d2, k) ==
    IF k = 0 THEN 0
    ELSE WinsOrTiesLoop(d1, d2, k - 1) + (IF RLe(d2[k], d1[k]) THEN 1 ELSE 0)

MinOf(x, y) == IF x < y THEN x ELSE y

\* faulty variant: ties are counted as wins
calculateOutperformanceProbability_CountsTies(d1, d2) ==
    IF Len(d1) # Len(d2)
    THEN Threw("Data arrays must have equal length")
    ELSE Returned(Rat(WinsOrTiesLoop(d1, d2, Len(d1)), Len(d1)))

\* faulty variant: no length check, the common prefix is compared
calculateOutperformanceProbability_NoLengthCheck(d1, d2) ==
    Returned(Rat(WinsLoop(d1, d2, MinOf(Len(d1), Len(d2))), Len(d1)))

\* HistogramBinner.calculateOutperformanceProbability(data1, data2)
\* faulty variant: the comparison is made the other way round
calculateOutperformanceProbability_Reversed(d1, d2) ==
    IF Len(d1) # Len(d2)
    THEN Threw("Data arrays must have equal length")
    ELSE Returned(Rat(WinsLoop(d2, d1, Len(d1)), Len(d1)))

calculateOutperformanceProbability(d1, d2) ==
    IF Len(d1) # Len(d2)
    THEN Threw("Data arrays must have equal length")
    ELSE Returned(Rat(WinsLoop(d1, d2, Len(d1)), Len(d1)))

\* faulty variant: ties are counted as wins
probabilityOutperforms_CountsTies(scenario1, scenario2) ==
    IF Len(scenario1) # Len(scenario2)
    THEN Threw("Arrays must have equal length")
    ELSE Returned(Rat(WinsOrTiesLoop(scenario1, scenario2, Len(scenario1)),
                      Len(scenario1)))

\* Statistics.probabilityOutperforms(scenario1, scenario2)
probabilityOutperforms(scenario1, scenario2) ==
    IF Len(scenario1) # Len(scenario2)
    THEN Threw("Arrays must have equal length")
    ELSE Returned(Rat(WinsLoop(scenario1, scenario2, Len(scenario1)),
                      Len(scenario1)))

----------------------------------------------------------------------------
(* HistogramBinner.binData and calculateOptimalBins *)

\* seq with v inserted before the first element greater than v
RECURSIVE InsertSorted(_, _)
InsertSorted(seq, v) ==
    IF seq = <<>> THEN <<v>>
    ELSE IF RLt(v, Head(seq)) THEN <<v>> \o seq
    ELSE <<Head(seq)>> \o InsertSorted(Tail(seq), v)

\* [...data].sort((a, b) => a - b): an ascending copy, data itself untouched
RECURSIVE SortAsc(_)
SortAsc(seq) ==
    IF seq = <<>> THEN <<>>
    ELSE InsertSorted(SortAsc(SubSeq(seq, 1, Len(seq) - 1)), seq[Len(seq)])

\* faulty variant: data.sort(...) without the copy reorders data itself
AfterSpreadSort_InPlace(d) == SortAsc(d)

\* The argument after `[...data].sort(...)`: the spread builds a new array
\* and sort() reorders that one, so data keeps its elements in their order.
AfterSpreadSort(d) == d

Cube(x) == RMul(x, RMul(x, x))

\* k * binWidth >= range for the Freedman-Diaconis width
\* binWidth = (2 * iqr) / Math.pow(n, 1 / 3), with iqr >= 0, range >= 0, n >= 1:
\* exactly (2 * k * iqr)^3 >= n * range^3.  The cubes are taken only when the
\* two sides are within a factor n of each other.
WidthCovers(k, iqr, range, n) ==
    LET a == RMul(R(2 * k), iqr)
    IN  IF RLt(a, range) THEN FALSE
        ELSE IF RLe(RMul(R(n), range), a) THEN TRUE
        ELSE RLe(RMul(R(n), Cube(range)), Cube(a))

\* Math.ceil(range / binWidth) for binWidth > 0: the least integer k >= from
\* with k * binWidth >= range
RECURSIVE CeilRangeOverWidth(_, _, _, _)
CeilRangeOverWidth(from, iqr, range, n) ==
    IF WidthCovers(from, iqr, range, n) THEN from
    ELSE CeilRangeOverWidth(from + 1, iqr, range, n)

MaxOf(x, y) == IF x > y THEN x ELSE y

\* faulty variant: a zero binWidth gives an infinite quotient, clamped to 60
calculateOptimalBins_NoFallback(sortedData) ==
    LET n == Len(sortedData)
        q1 == sortedData[(n \div 4) + 1]
        q3 == sortedData[((3 * n) \div 4) + 1]
        iqr == RSub(q3, q1)
        range == RSub(sortedData[n], sortedData[1])
        numBins == IF RGt(iqr, Zero) THEN CeilRangeOverWidth(0, iqr, range, n)
                   ELSE 60
    IN  MaxOf(20, MinOf(60, numBins))

\* calculateOptimalBins(sortedData); JS index k is sortedData[k + 1], and
\* binWidth > 0 exactly when iqr > 0
calculateOptimalBins(sortedData) ==
    LET n == Len(sortedData)
        q1 == sortedData[(n \div 4) + 1]
        q3 == sortedData[((3 * n) \div 4) + 1]
        iqr == RSub(q3, q1)
        range == RSub(sortedData[n], sortedData[1])
        numBins == IF RGt(iqr, Zero) THEN CeilRangeOverWidth(0, iqr, range, n)
                   ELSE 30
    IN  MaxOf(20, MinOf(60, numBins))

BinStart(min, idx, binWidth) == RAdd(min, RMul(R(idx), binWidth))

\* faulty variant: the bin ends at its midpoint
BinEnd_AtMidpoint(min, idx, binWidth) ==
    RAdd(min, RMul(Rat(2 * idx + 1, 2), binWidth))

BinEnd(min, idx, binWidth) == RAdd(min, RMul(R(idx + 1), binWidth))

BinMidpoint(min, idx, binWidth) ==
    RAdd(min, RMul(Rat(2 * idx + 1, 2), binWidth))

\* faulty variant: Math.ceil in place of Math.floor
BinIndex_Ceil(value, min, binWidth, numBins) ==
    MinOf(RCeil(RDiv(RSub(value, min), binWidth)), numBins - 1)

\* Math.min(Math.floor((value - min) / binWidth), numBins - 1)
BinIndex(value, min, binWidth, numBins) ==
    MinOf(RFloor(RDiv(RSub(value, min), binWidth)), numBins - 1)

\* faulty variant: the counting loop skips the first value
BinCount_SkipsFirst(binIndex, idx) ==
    Cardinality({j \in DOMAIN binIndex : j > 1 /\ binIndex[j] = idx})

\* bins[idx].count after the counting loop over sortedData
BinCount(binIndex, idx) ==
    Cardinality({j \in DOMAIN binIndex : binIndex[j] = idx})

\* binData(data, numBins); numBins = [isNull |-> TRUE, ..] is the default null.
\* new Array(numBins) throws a RangeError for a negative length, and
\* faulty variant: the single bin counts one value instead of all of them
SingleBin_UnitCount(min, max, sortedData) ==
    << [binStart |-> min, binEnd |-> max, count |-> 1,
        midpoint |-> min, percentage |-> R(100)] >>

\* if (min === max) return [{ binStart: min, binEnd: max, count: n, ... }]
SingleBin(min, max, sortedData) ==
    << [binStart |-> min, binEnd |-> max, count |-> Len(sortedData),
        midpoint |-> min, percentage |-> R(100)] >>

\* bins[binIndex].count++ throws a TypeError when bins[binIndex] is undefined.
binData(d, numBinsParam) ==
    IF Len(d) = 0 THEN Returned(<<>>)
    ELSE
    LET sortedData == SortAsc(d)
        numBins == IF numBinsParam.isNull THEN calculateOptimalBins(sortedData)
                   ELSE numBinsParam.value
        min == sortedData[1]
        max == sortedData[Len(sortedData)]
        binWidth == RDiv(RSub(max, min), R(numBins))
        binIndex == [j \in 1 .. Len(sortedData) |->
                        BinIndex(sortedData[j], min, binWidth, numBins)]
        totalCount == Len(d)
    IN  IF min = max
        THEN Returned(SingleBin(min, max, sortedData))
        ELSE IF numBins < 0 THEN Threw("RangeError")
        ELSE IF \E j \in 1 .. Len(sortedData) : binIndex[j] \notin 0 .. (numBins - 1)
        THEN Threw("TypeError")
        ELSE Returned(
               [b \in 1 .. numBins |->
                  LET count == BinCount(binIndex, b - 1)
                  IN  [binStart |-> BinStart(min, b - 1, binWidth),
                       binEnd |-> BinEnd(min, b - 1, binWidth),
                       count |-> count,
                       midpoint |-> BinMidpoint(min, b - 1, binWidth),
                       percentage |-> RMul(Rat(count, totalCount), R(100))]])

----------------------------------------------------------------------------
(* Percentiles and summaries: HistogramBinner.calculatePercentiles and     *)
(* calculateStatistics, the Statistics class, computeTimeSeriesBands       *)

\* sorted[index] of a dense array held as a sequence: undefined outside it
ElementAt(sorted, index) ==
    IF index \in 0 .. (Len(sorted) - 1) THEN sorted[index + 1] ELSE Undefined

\* array.reduce((sum, val) => sum + val, 0) over the first k elements
RECURSIVE SumLoop(_, _)
SumLoop(array, k) ==
    IF k = 0 THEN Zero ELSE RAdd(SumLoop(array, k - 1), array[k])

\* Math.sqrt(x) for x >= 0: the rational root when there is one, else the
\* exact value kept symbolically
Sqrt(x) ==
    IF /\ \E k \in 0 .. x.num : k * k = x.num
       /\ \E k \in 0 .. x.den : k * k = x.den
    THEN Rat(CHOOSE k \in 0 .. x.num : k * k = x.num,
             CHOOSE k \in 0 .. x.den : k * k = x.den)
    ELSE [sqrtOf |-> x]

\* Math.floor(n * p) for the literals 0.05, 0.25, 0.50, 0.75, 0.95
FloorTimes(n, p) == RFloor(RMul(R(n), p))

\* faulty variant: the rank is rounded up instead of down
calculatePercentiles_CeilRank(d) ==
    LET sorted == SortAsc(d)
        n == Len(sorted)
    IN  [p5 |-> ElementAt(sorted, RCeil(RMul(R(n), Rat(5, 100)))),
         p25 |-> ElementAt(sorted, RCeil(RMul(R(n), Rat(25, 100)))),
         p50 |-> ElementAt(sorted, RCeil(RMul(R(n), Rat(50, 100)))),
         p75 |-> ElementAt(sorted, RCeil(RMul(R(n), Rat(75, 100)))),
         p95 |-> ElementAt(sorted, RCeil(RMul(R(n), Rat(95, 100))))]

calculatePercentiles(d) ==
    LET sorted == SortAsc(d)
        n == Len(sorted)
    IN  [p5 |-> ElementAt(sorted, FloorTimes(n, Rat(5, 100))),
         p25 |-> ElementAt(sorted, FloorTimes(n, Rat(25, 100))),
         p50 |-> ElementAt(sorted, FloorTimes(n, Rat(50, 100))),
         p75 |-> ElementAt(sorted, FloorTimes(n, Rat(75, 100))),
         p95 |-> ElementAt(sorted, FloorTimes(n, Rat(95, 100)))]

\* The argument is [isNull, value]: null / undefined, or an array of numbers.
calculateStatistics(arg) ==
    IF arg.isNull \/ Len(arg.value) = 0 THEN Null
    ELSE
    LET d == arg.value
        sorted == SortAsc(d)
        n == Len(sorted)
        avg == RDiv(SumLoop(d, n), R(n))
        squareDiffs == [k \in 1 .. n |-> RPow(RSub(d[k], avg), 2)]
        variance == RDiv(SumLoop(squareDiffs, n), R(n))
        percentiles == calculatePercentiles(d)
    IN  [mean |-> avg,
         median |-> percentiles.p50,
         stdDev |-> Sqrt(variance),
         min |-> ElementAt(sorted, 0),
         max |-> ElementAt(sorted, n - 1),
         p5 |-> percentiles.p5,
         p25 |-> percentiles.p25,
         p50 |-> percentiles.p50,
         p75 |-> percentiles.p75,
         p95 |-> percentiles.p95]

\* Statistics.percentile(sortedArray, p)
percentile(sortedArray, p) ==
    IF Len(sortedArray) = 0 THEN Zero
    ELSE LET index == FloorTimes(Len(sortedArray), p)
         IN  ElementAt(sortedArray, MinOf(index, Len(sortedArray) - 1))

\* Statistics.mean(array)
mean(array) ==
    IF Len(array) = 0 THEN Zero
    ELSE RDiv(SumLoop(array, Len(array)), R(Len(array)))

\* Statistics.median(array)
median(array) ==
    IF Len(array) = 0 THEN Zero
    ELSE LET sorted == SortAsc(array)
             mid == Len(sorted) \div 2
         IN  IF Len(sorted) % 2 = 0
             THEN RDiv(RAdd(ElementAt(sorted, mid - 1), ElementAt(sorted, mid)), R(2))
             ELSE ElementAt(sorted, mid)

\* Statistics.stdDev(array)
stdDev(array) ==
    IF Len(array) = 0 THEN Zero
    ELSE LET avg == mean(array)
             squareDiffs == [k \in 1 .. Len(array) |-> RPow(RSub(array[k], avg), 2)]
             avgSquareDiff == mean(squareDiffs)
         IN  Sqrt(avgSquareDiff)

\* the object literal that summarize returns
Summary(d) ==
    LET sorted == SortAsc(d)
    IN  [count |-> Len(d),
         mean |-> mean(d),
         median |-> median(d),
         stdDev |-> stdDev(d),
         min |-> ElementAt(sorted, 0),
         max |-> ElementAt(sorted, Len(sorted) - 1),
         p5 |-> percentile(sorted, Rat(5, 100)),
         p25 |-> percentile(sorted, Rat(25, 100)),
         p75 |-> percentile(sorted, Rat(75, 100)),
         p95 |-> percentile(sorted, Rat(95, 100))]

\* faulty variant: only a missing argument is answered with null
summarize_NoEmptyCheck(arg) ==
    IF arg.isNull THEN Null ELSE Summary(arg.value)

\* Statistics.summarize(data)
summarize(arg) ==
    IF arg.isNull \/ Len(arg.value) = 0 THEN Null ELSE Summary(arg.value)

\* binData's first test covers a missing argument as well as an empty array
binDataOrEmpty(arg, numBinsParam) ==
    IF arg.isNull THEN Returned(<<>>) ELSE binData(arg.value, numBinsParam)

\* faulty variant: column y is not sorted before the ranks are read
Band_Unsorted(paths, y) ==
    LET numSims == paths.length
        values == [k \in 1 .. numSims |-> paths.at[k - 1].at[y]]
        sum == SumLoop(values, numSims)
    IN  [year |-> y,
         p5 |-> ElementAt(values, FloorTimes(numSims, Rat(5, 100))),
         p25 |-> ElementAt(values, FloorTimes(numSims, Rat(25, 100))),
         p50 |-> ElementAt(values, FloorTimes(numSims, Rat(50, 100))),
         p75 |-> ElementAt(values, FloorTimes(numSims, Rat(75, 100))),
         p95 |-> ElementAt(values, FloorTimes(numSims, Rat(95, 100))),
         mean |-> RDiv(sum, R(numSims))]

\* The band of year y.  paths is an array of arrays; values is column y,
\* sorted ascending.
Band(paths, y) ==
    LET numSims == paths.length
        values == SortAsc([k \in 1 .. numSims |-> paths.at[k - 1].at[y]])
        sum == SumLoop(values, numSims)
    IN  [year |-> y,
         p5 |-> ElementAt(values, FloorTimes(numSims, Rat(5, 100))),
         p25 |-> ElementAt(values, FloorTimes(numSims, Rat(25, 100))),
         p50 |-> ElementAt(values, FloorTimes(numSims, Rat(50, 100))),
         p75 |-> ElementAt(values, FloorTimes(numSims, Rat(75, 100))),
         p95 |-> ElementAt(values, FloorTimes(numSims, Rat(95, 100))),
         mean |-> RDiv(sum, R(numSims))]

\* faulty variant: the year loop stops before the last year
computeTimeSeriesBands_StopsEarly(paths, years) ==
    IF years + 1 < 0 THEN Threw("RangeError")
    ELSE Returned([length |-> years + 1,
                   at |-> [y \in 0 .. (years - 1) |-> Band(paths, y)]])

\* computeTimeSeriesBands(paths, years); new Array(years + 1) throws a
\* RangeError for years < -1.  Every row of paths has at least years + 1
\* elements.
computeTimeSeriesBands(paths, years) ==
    IF years + 1 < 0 THEN Threw("RangeError")
    ELSE Returned([length |-> years + 1,
                   at |-> [y \in 0 .. years |-> Band(paths, y)]])

----------------------------------------------------------------------------
(* Runs of the engine *)

MaxTrials == 2

\* this.returns of the engine under analysis: -50 %, 0 % and +100 % years
Dataset == <<Rat(-1, 2), Zero, One>>

Monthlies == {100, 300}
Horizons == {-1, 0, 1, 2}
Rates == {Zero, R(12)}
Allocations == {0, 50, 100, 150}
\* numSimulations is always passed (its default of 10000 is not explored)
TrialCounts == -1 .. MaxTrials

\* (1 + rate/12)^(12 * years) has to stay inside TLC's 32-bit integers
Representable(p) == p.mortgageRate = Zero \/ p.timeHorizon <= 1

ParamSpace ==
    {p \in [monthlyInvestment : Monthlies, timeHorizon : Horizons,
            mortgageRate : Rates, stockAllocation : Allocations,
            numSimulations : TrialCounts] : Representable(p)}

\* the documented domain of the parameters (spec sections 3, 4.3 and 7)
ValidParams(p) ==
    /\ p.monthlyInvestment >= 0
    /\ p.timeHorizon > 0
    /\ RLe(Zero, p.mortgageRate)
    /\ p.stockAllocation >= 0 /\ p.stockAllocation <= 100
    /\ p.numSimulations > 0

NoArray == NewArray(0)

EngineIdle ==
    /\ pc = "idle"
    /\ i = 0
    /\ stockResults = NoArray
    /\ mortgageResults = NoArray
    /\ stockPaths = NoArray
    /\ mortgagePath = NoArray
    /\ drawn = <<>>
    /\ timeSeriesData = NoArray
    /\ comparison = Pending

InitEngine ==
    /\ returns = Dataset
    /\ params = [monthlyInvestment |-> 100, timeHorizon |-> 1, mortgageRate |-> Zero,
                 stockAllocation |-> 50, numSimulations |-> 1]
    /\ mode = "plain"
    /\ EngineIdle

\* new Array(numSimulations) throws a RangeError for a negative length
Allocate(p, m) ==
    /\ pc = "idle"
    /\ params' = p
    /\ mode' = m
    /\ i' = 0
    /\ drawn' = <<>>
    /\ mortgagePath' = NoArray
    /\ IF p.numSimulations < 0
       THEN /\ pc' = "failed"
            /\ UNCHANGED <<stockResults, mortgageResults, stockPaths>>
       ELSE /\ pc' = "loop"
            /\ stockResults' = NewArray(p.numSimulations)
            /\ mortgageResults' = NewArray(p.numSimulations)
            /\ stockPaths' = IF m = "timeSeries" THEN NewArray(p.numSimulations)
                             ELSE NoArray
    /\ UNCHANGED <<returns, timeSeriesData, comparison>>

runSimulation == \E p \in ParamSpace : Allocate(p, "plain")

runSimulationWithTimeSeries == \E p \in ParamSpace : Allocate(p, "timeSeries")

\* faulty variant: the loop stops one trial early
LoopContinues_OffByOne(idx, numSimulations) == idx < numSimulations - 1

\* for (let i = 0; i < numSimulations; i++)
LoopContinues(idx, numSimulations) == idx < numSimulations

\* One iteration of the trial loop.  generateReturnPath's new Array(years)
\* throws a RangeError for a negative horizon, which ends the run.
Trial ==
    /\ pc = "loop"
    /\ LoopContinues(i, params.numSimulations)
    /\ \/ /\ params.timeHorizon < 0
          /\ pc' = "failed"
          /\ UNCHANGED <<i, stockResults, mortgageResults, stockPaths, drawn>>
       \/ /\ params.timeHorizon >= 0
          /\ \E path \in generateReturnPath(params.timeHorizon) :
                /\ drawn' = Append(drawn, path)
                /\ \/ /\ mode = "plain"
                      /\ stockResults' =
                            ArraySet(stockResults, i,
                                calculateStockScenario(
                                    R(params.monthlyInvestment),
                                    Rat(params.stockAllocation, 100),
                                    path, params.mortgageRate, params.timeHorizon))
                      /\ UNCHANGED stockPaths
                   \/ /\ mode = "timeSeries"
                      /\ LET r == calculateStockScenarioWithPath(
                                      R(params.monthlyInvestment),
                                      Rat(params.stockAllocation, 100),
                                      path, params.mortgageRate, params.timeHorizon)
                         IN  /\ stockResults' = ArraySet(stockResults, i, r.finalValue)
                             /\ stockPaths' = ArraySet(stockPaths, i, r.yearlyValues)
          /\ mortgageResults' =
                ArraySet(mortgageResults, i,
                    calculateMortgageScenario(R(params.monthlyInvestment),
                                              params.timeHorizon, params.mortgageRate))
          /\ i' = i + 1
          /\ UNCHANGED pc
    /\ UNCHANGED <<returns, params, mode, mortgagePath, timeSeriesData, comparison>>

\* The loop has ended: the run returns its arrays (and, in time-series mode,
\* the mortgage path computed after the loop).
Finish ==
    /\ pc = "loop"
    /\ ~LoopContinues(i, params.numSimulations)
    /\ pc' = "done"
    /\ mortgagePath' =
          IF mode = "timeSeries"
          THEN calculateMortgagePath(R(params.monthlyInvestment),
                                     params.timeHorizon, params.mortgageRate)
          ELSE NoArray
    /\ UNCHANGED <<returns, params, mode, i, stockResults, mortgageResults,
                   stockPaths, drawn, timeSeriesData, comparison>>

\* useSimulation, after a time-series run has returned.  calculateStatistics
\* and calculatePercentiles are called on the stock and on the mortgage
\* outcomes first; the win probabilities are computed from the arrays as
\* those calls leave them; then come the bands of the stock paths, each
\* paired with the mortgage path's entry of the same index.
BuildTimeSeriesData ==
    /\ pc = "done"
    /\ mode = "timeSeries"
    /\ comparison = Pending
    /\ LET stockAfter == AfterSpreadSort(AfterSpreadSort(SeqOf(stockResults)))
           mortgageAfter == AfterSpreadSort(AfterSpreadSort(SeqOf(mortgageResults)))
           probabilityStockWins ==
               calculateOutperformanceProbability(stockAfter, mortgageAfter).value
       IN  /\ stockResults' = ArrayOf(stockAfter)
           /\ mortgageResults' = ArrayOf(mortgageAfter)
           /\ comparison' =
                  Returned([probabilityStockWins |-> probabilityStockWins,
                            probabilityMortgageWins |->
                                RSub(One, probabilityStockWins)])
    /\ LET stockBands == computeTimeSeriesBands(stockPaths, params.timeHorizon).value
       IN  timeSeriesData' =
              [length |-> stockBands.length,
               at |-> [y \in DOMAIN stockBands.at |->
                         LET band == stockBands.at[y]
                         IN  [year |-> band.year, p5 |-> band.p5, p25 |-> band.p25,
                              p50 |-> band.p50, p75 |-> band.p75, p95 |-> band.p95,
                              mean |-> band.mean,
                              mortgage |-> IF y \in DOMAIN mortgagePath.at
                                           THEN mortgagePath.at[y]
                                           ELSE Undefined]]]
    /\ UNCHANGED <<returns, params, mode, pc, i, stockPaths, mortgagePath, drawn>>

\* The caller is done with the result (or the error); the next run may start.
Discard ==
    /\ pc \in {"done", "failed"}
    /\ pc' = "idle"
    /\ i' = 0
    /\ stockResults' = NoArray
    /\ mortgageResults' = NoArray
    /\ stockPaths' = NoArray
    /\ mortgagePath' = NoArray
    /\ drawn' = <<>>
    /\ timeSeriesData' = NoArray
    /\ comparison' = Pending
    /\ UNCHANGED <<returns, params, mode>>

ProbIdle ==
    /\ impl = "HistogramBinner"
    /\ data1 = <<>>
    /\ data2 = <<>>
    /\ outAB = Pending
    /\ outBA = Pending

BinIdle ==
    /\ data = <<>>
    /\ numBinsArg = [isNull |-> TRUE, value |-> 0]
    /\ binOut = Pending

StatIdle ==
    /\ coll = [isNull |-> TRUE, value |-> <<>>]
    /\ outStatistics = Pending
    /\ outSummary = Pending
    /\ outPercentiles = Pending
    /\ outPercentile = Pending
    /\ outBins = Pending
    /\ outBand = Pending

BandIdle ==
    /\ matrix = NoArray
    /\ yearsArg = 0
    /\ bandsOut = Pending

SavingsIdle ==
    /\ payment = Zero
    /\ yearsIn = 0
    /\ rateIn = Zero
    /\ savingsOut = Pending

PathIdle ==
    /\ pathYears = 0
    /\ pathOut = Pending

(***************************************************************************)
(* useDebounce and InputPanel's slider.  Time is counted in milliseconds;  *)
(* a timeout is the record of the value its callback captured and the      *)
(* milliseconds since setTimeout, counted up to the delay.                 *)
(***************************************************************************)
Delay == 150

InitialStockAllocation == 50

\* three of the positions of the range input (min 0, max 100, step 5)
SliderPositions == {0, 50, 100}

setTimeout(pending, value) == pending \cup {[value |-> value, elapsed |-> 0]}

clearTimeout_Ignored(pending, h) == pending

clearTimeout(pending, h) == pending \ {h}

\* the state after the first render and its effects: the slider shows the
\* stockAllocation prop, useDebounce starts a timeout for it, and InputPanel's
\* effect calls onStockAllocationChange with the debounced value
Mounted ==
    /\ stockAllocation = InitialStockAllocation
    /\ sliderValue = InitialStockAllocation
    /\ debouncedValue = InitialStockAllocation
    /\ handler = [value |-> InitialStockAllocation, elapsed |-> 0]
    /\ timers = setTimeout({}, InitialStockAllocation)
    /\ effectDeps = InitialStockAllocation
    /\ shown = {InitialStockAllocation}
    /\ emitted = {InitialStockAllocation}

Init ==
    /\ InitEngine
    /\ ProbIdle
    /\ BinIdle
    /\ StatIdle
    /\ BandIdle
    /\ SavingsIdle
    /\ PathIdle
    /\ Mounted

Next ==
    \/ (runSimulation /\ UNCHANGED <<probVars, binVars, statVars, bandVars, savingsVars, pathVars,
                     debounceVars>>)
    \/ (runSimulationWithTimeSeries /\ UNCHANGED <<probVars, binVars, statVars, bandVars, savingsVars, pathVars,
                     debounceVars>>)
    \/ (Trial /\ UNCHANGED <<probVars, binVars, statVars, bandVars, savingsVars, pathVars,
                     debounceVars>>)
    \/ (Finish /\ UNCHANGED <<probVars, binVars, statVars, bandVars, savingsVars, pathVars,
                     debounceVars>>)
    \/ (BuildTimeSeriesData
            /\ UNCHANGED <<probVars, binVars, statVars, bandVars, savingsVars, pathVars,
                     debounceVars>>)
    \/ (Discard /\ UNCHANGED <<probVars, binVars, statVars, bandVars, savingsVars, pathVars,
                     debounceVars>>)

Spec == Init /\ [][Next]_vars


----------------------------------------------------------------------------
(* Claims about the engine, checked under Spec *)

\* C1: a run that returns hands back a stock collection and a mortgage
\* collection that both have length numSimulations, with every index
\* 0 .. numSimulations-1 assigned (so the two are equal in length).
C1_OutcomeLengths ==
    pc = "done" =>
        /\ stockResults.length = params.numSimulations
        /\ mortgageResults.length = params.numSimulations
        /\ DOMAIN stockResults.at = 0 .. (params.numSimulations - 1)
        /\ DOMAIN mortgageResults.at = 0 .. (params.numSimulations - 1)

C1_Witness ==
    /\ pc = "done"
    /\ ValidParams(params)
    /\ mode = "timeSeries"
    /\ params.numSimulations = 2
    /\ Filled(stockResults)
    /\ mortgageResults.length = 2

\* C2: a run given invalid parameters (horizon <= 0, trial count <= 0 or an
\* allocation outside [0, 1]) never simulates a trial and never returns
\* outcome collections.
C2_InvalidParamsFailFast ==
    (pc # "idle" /\ ~ValidParams(params)) => (pc # "done" /\ i = 0)

\* C3: with allocation 0, every stock outcome of a returned run equals the
\* mortgage outcome of the same trial, which is the mortgage-savings value
\* of the full monthly surplus.
C3_ZeroAllocation ==
    (pc = "done" /\ params.stockAllocation = 0) =>
        \A k \in 0 .. (params.numSimulations - 1) :
            /\ stockResults.at[k] = mortgageResults.at[k]
            /\ stockResults.at[k] =
                   calculateMortgageSavingsValue(R(params.monthlyInvestment),
                                                 params.timeHorizon,
                                                 params.mortgageRate)

C3_Witness ==
    /\ pc = "done"
    /\ params.stockAllocation = 0
    /\ params.numSimulations = 2
    /\ params.timeHorizon = 2
    /\ params.monthlyInvestment = 300
    /\ drawn = << <<One, One>>, <<Rat(-1, 2), One>> >>
    /\ stockResults.at[0] = R(7200)
    /\ stockResults.at[1] = mortgageResults.at[1]


----------------------------------------------------------------------------
(* Calls of the outperformance functions on arbitrary collections *)

MaxLen == 3

ProbValues == {Zero, One, Rat(3, 2)}

SeqsUpTo(S, n) == UNION {[1 .. k -> S] : k \in 0 .. n}

InitProb ==
    /\ InitEngine
    /\ PathIdle
    /\ Mounted
    /\ BinIdle
    /\ StatIdle
    /\ BandIdle
    /\ SavingsIdle
    /\ impl \in {"HistogramBinner", "Statistics"}
    /\ data1 \in SeqsUpTo(ProbValues, MaxLen)
    /\ data2 \in SeqsUpTo(ProbValues, MaxLen)
    /\ outAB = Pending
    /\ outBA = Pending

Outperformance(x, y) ==
    IF impl = "HistogramBinner"
    THEN calculateOutperformanceProbability(x, y)
    ELSE probabilityOutperforms(x, y)

\* the call with the collections in the order (data1, data2)
CallAB ==
    /\ outAB = Pending
    /\ outAB' = Outperformance(data1, data2)
    /\ UNCHANGED <<impl, data1, data2, outBA>>

\* the call with the collections swapped
CallBA ==
    /\ outBA = Pending
    /\ outBA' = Outperformance(data2, data1)
    /\ UNCHANGED <<impl, data1, data2, outAB>>

NextProb ==
    \/ (CallAB /\ UNCHANGED <<engineVars, binVars, statVars, bandVars, savingsVars, pathVars,
                     debounceVars>>)
    \/ (CallBA /\ UNCHANGED <<engineVars, binVars, statVars, bandVars, savingsVars, pathVars,
                     debounceVars>>)

SpecProb == InitProb /\ [][NextProb]_vars

\* the fraction of indices at which the two collections hold the same value
TieFraction(x, y) == Rat(Cardinality({k \in 1 .. Len(x) : x[k] = y[k]}), Len(x))

\* C4: for equal-length non-empty collections a and b,
\* P(a, b) + P(b, a) + (fraction of indices with a[i] = b[i]) = 1.
C4_ProbabilitiesSumToOne ==
    (/\ outAB # Pending /\ outBA # Pending
     /\ Len(data1) = Len(data2) /\ Len(data1) > 0) =>
        /\ outAB.kind = "returned"
        /\ outBA.kind = "returned"
        /\ RAdd(RAdd(outAB.value, outBA.value), TieFraction(data1, data2)) = One

C4_Witness ==
    /\ data1 = <<Zero, One, Rat(3, 2)>>
    /\ data2 = <<One, One, Zero>>
    /\ outAB = Returned(Rat(1, 3))
    /\ outBA = Returned(Rat(1, 3))

\* C5: for a non-empty collection x, P(x, x) = 0.
C5_SelfProbabilityZero ==
    (outAB # Pending /\ data1 = data2 /\ Len(data1) > 0) =>
        outAB = Returned(Zero)

C5_Witness ==
    /\ data1 = <<One, Zero, Rat(3, 2)>>
    /\ data2 = data1
    /\ impl = "Statistics"
    /\ outAB = Returned(Zero)

\* C6: called with collections of unequal length, the function throws the
\* length-mismatch error and returns no probability.
C6_LengthMismatchThrows ==
    /\ (outAB # Pending /\ Len(data1) # Len(data2)) =>
           (outAB.kind = "threw" /\ outAB.error \in
                {"Data arrays must have equal length", "Arrays must have equal length"})
    /\ (outBA # Pending /\ Len(data1) # Len(data2)) =>
           (outBA.kind = "threw" /\ outBA.error \in
                {"Data arrays must have equal length", "Arrays must have equal length"})

C6_Witness ==
    /\ data1 = <<One, Zero, One>>
    /\ data2 = <<Zero, Zero>>
    /\ impl = "HistogramBinner"
    /\ outAB = Threw("Data arrays must have equal length")
    /\ outBA.kind = "threw"


----------------------------------------------------------------------------
(* Calls of binData on arbitrary collections *)

MaxData == 4

BinValues == {R(-40), Zero, One, R(40), R(41)}

\* the numBins argument: omitted (null) or supplied
BinCountArgs ==
    {[isNull |-> TRUE, value |-> 0]}
        \cup {[isNull |-> FALSE, value |-> v] : v \in {-1, 0, 1, 2, 3, 7}}

InitBin ==
    /\ InitEngine
    /\ PathIdle
    /\ Mounted
    /\ ProbIdle
    /\ StatIdle
    /\ BandIdle
    /\ SavingsIdle
    /\ data \in SeqsUpTo(BinValues, MaxData)
    /\ numBinsArg \in BinCountArgs
    /\ binOut = Pending

CallBinData ==
    /\ binOut = Pending
    /\ binOut' = binData(data, numBinsArg)
    /\ UNCHANGED <<data, numBinsArg>>

\* the caller drops the bins; binData may be called again on the same input
DropBins ==
    /\ binOut # Pending
    /\ binOut' = Pending
    /\ UNCHANGED <<data, numBinsArg>>

NextBin ==
    \/ (CallBinData /\ UNCHANGED <<engineVars, probVars, statVars, bandVars, savingsVars, pathVars,
                     debounceVars>>)
    \/ (DropBins /\ UNCHANGED <<engineVars, probVars, statVars, bandVars, savingsVars, pathVars,
                     debounceVars>>)

SpecBin == InitBin /\ [][NextBin]_vars

----------------------------------------------------------------------------
(* Claims about binData, checked under SpecBin *)

\* the element at 0-based position k of the ascending order of seq
OrderStat(seq, k) ==
    CHOOSE v \in {seq[j] : j \in 1 .. Len(seq)} :
        /\ Cardinality({j \in 1 .. Len(seq) : RLt(seq[j], v)}) <= k
        /\ Cardinality({j \in 1 .. Len(seq) : RLe(seq[j], v)}) > k

DataMin == OrderStat(data, 0)
DataMax == OrderStat(data, Len(data) - 1)

\* the call was made on a non-empty collection
BinCallMade == binOut # Pending /\ Len(data) > 0

\* the bin count is chosen by binData or supplied as a positive integer
UsableBinCount == numBinsArg.isNull \/ numBinsArg.value >= 1

RECURSIVE SumCounts(_, _)
SumCounts(bins, k) == IF k = 0 THEN 0 ELSE SumCounts(bins, k - 1) + bins[k].count

\* C7: for a non-empty input and an automatic or supplied bin count, binData
\* returns bins whose counts sum to the input length.
C7_CountsSumToLength ==
    BinCallMade =>
        /\ UsableBinCount => binOut.kind = "returned"
        /\ binOut.kind = "returned" =>
               SumCounts(binOut.value, Len(binOut.value)) = Len(data)

C7_Witness ==
    /\ data = <<Zero, R(40), One, R(41)>>
    /\ numBinsArg = [isNull |-> FALSE, value |-> 3]
    /\ binOut.kind = "returned"
    /\ Len(binOut.value) = 3
    /\ binOut.value[1].count = 2
    /\ binOut.value[2].count = 0
    /\ binOut.value[3].count = 2

InBinRange(v, bins, b) ==
    /\ RLe(bins[b].binStart, v)
    /\ IF b < Len(bins) THEN RLt(v, bins[b].binEnd) ELSE RLe(v, bins[b].binEnd)

DataIQR ==
    RSub(OrderStat(data, (3 * Len(data)) \div 4), OrderStat(data, Len(data) \div 4))
DataRange == RSub(DataMax, DataMin)

\* C10: with the bin count left to binData and a nonzero range, the number
\* of bins is ceil(range / binWidth) clamped to [20, 60] for the
\* Freedman-Diaconis width 2 IQR / n^(1/3) when that is positive, and 30
\* when IQR = 0; it is always between 20 and 60.
C10_AutomaticBinCount ==
    (BinCallMade /\ numBinsArg.isNull /\ DataMin # DataMax) =>
        /\ binOut.kind = "returned"
        /\ LET k == Len(binOut.value)
               n == Len(data)
           IN  /\ 20 <= k /\ k <= 60
               /\ DataIQR = Zero => k = 30
               /\ RGt(DataIQR, Zero) =>
                      /\ k > 20 => ~WidthCovers(k - 1, DataIQR, DataRange, n)
                      /\ k < 60 => WidthCovers(k, DataIQR, DataRange, n)

C10_Witness ==
    /\ data = <<R(41), R(40), Zero, R(41)>>
    /\ numBinsArg.isNull
    /\ DataIQR = One
    /\ binOut.kind = "returned"
    /\ Len(binOut.value) = 33

\* C11: when every value of a non-empty collection is the same, binData
\* returns exactly one bin whose start and end are that value, whose count
\* is the length of the collection and whose percentage is 100, whatever
\* bin count was requested (none, zero or negative included).
C11_IdenticalValuesSingleBin ==
    (BinCallMade /\ Len(data) > 0 /\ (\A k \in 1 .. Len(data) : data[k] = data[1])) =>
        /\ binOut.kind = "returned"
        /\ Len(binOut.value) = 1
        /\ binOut.value[1].binStart = data[1]
        /\ binOut.value[1].binEnd = data[1]
        /\ binOut.value[1].count = Len(data)
        /\ binOut.value[1].percentage = R(100)

C11_Witness ==
    /\ BinCallMade
    /\ Len(data) = 3
    /\ \A k \in 1 .. Len(data) : data[k] = R(40)
    /\ ~numBinsArg.isNull
    /\ numBinsArg.value = -1
    /\ binOut.kind = "returned"
    /\ binOut.value[1].count = 3

----------------------------------------------------------------------------
(* The statistics functions applied to one collection *)

MaxColl == 4

StatValues == {Zero, One, R(3)}

\* two collections long enough for floor(n * 0.05) >= 1 and
\* floor(n * 0.95) < n - 1: 21 distinct values and 20 values with repeats
LongCollections ==
    {[k \in 1 .. 21 |-> R((k * 8) % 21)], [k \in 1 .. 20 |-> R((k * 3) % 7)]}

\* the array of one-element rows whose only column is the sequence seq
ColumnMatrix(seq) ==
    [length |-> Len(seq),
     at |-> [k \in 0 .. (Len(seq) - 1) |-> [length |-> 1, at |-> (0 :> seq[k + 1])]]]

InitStats ==
    /\ InitEngine
    /\ PathIdle
    /\ Mounted
    /\ ProbIdle
    /\ BinIdle
    /\ BandIdle
    /\ SavingsIdle
    /\ coll \in {[isNull |-> TRUE, value |-> <<>>]} \cup
                {[isNull |-> FALSE, value |-> s] :
                    s \in SeqsUpTo(StatValues, MaxColl) \cup LongCollections}
    /\ outStatistics = Pending
    /\ outSummary = Pending
    /\ outPercentiles = Pending
    /\ outPercentile = Pending
    /\ outBins = Pending
    /\ outBand = Pending

\* The argument as a call that sorts a spread copy of it leaves it
ArgAfterCall(arg) ==
    IF arg.isNull THEN arg ELSE [arg EXCEPT !.value = AfterSpreadSort(@)]

CallCalculateStatistics ==
    /\ outStatistics = Pending
    /\ outStatistics' = Returned(calculateStatistics(coll))
    /\ coll' = ArgAfterCall(coll)
    /\ UNCHANGED <<outSummary, outPercentiles, outPercentile, outBins, outBand>>

CallSummarize ==
    /\ outSummary = Pending
    /\ outSummary' = Returned(summarize(coll))
    /\ coll' = ArgAfterCall(coll)
    /\ UNCHANGED <<outStatistics, outPercentiles, outPercentile, outBins, outBand>>

\* [...data] throws a TypeError when data is null or undefined
CallCalculatePercentiles ==
    /\ outPercentiles = Pending
    /\ outPercentiles' = IF coll.isNull THEN Threw("TypeError")
                         ELSE Returned(calculatePercentiles(coll.value))
    /\ coll' = ArgAfterCall(coll)
    /\ UNCHANGED <<outStatistics, outSummary, outPercentile, outBins, outBand>>

\* Statistics.percentile on the sorted copy of the collection, as summarize
\* calls it, for each of the five percentiles
CallPercentile ==
    /\ outPercentile = Pending
    /\ outPercentile' =
          IF coll.isNull THEN Threw("TypeError")
          ELSE LET sorted == SortAsc(coll.value)
               IN  Returned([p5 |-> percentile(sorted, Rat(5, 100)),
                             p25 |-> percentile(sorted, Rat(25, 100)),
                             p50 |-> percentile(sorted, Rat(50, 100)),
                             p75 |-> percentile(sorted, Rat(75, 100)),
                             p95 |-> percentile(sorted, Rat(95, 100))])
    /\ UNCHANGED <<coll, outStatistics, outSummary, outPercentiles, outBins, outBand>>

CallBinDataOfColl ==
    /\ outBins = Pending
    /\ outBins' = binDataOrEmpty(coll, [isNull |-> TRUE, value |-> 0])
    /\ coll' = ArgAfterCall(coll)
    /\ UNCHANGED <<outStatistics, outSummary, outPercentiles, outPercentile, outBand>>

\* paths.length throws a TypeError when paths is null or undefined; the
\* column is copied into a new array values, which is the one sorted
CallBandOfColl ==
    /\ outBand = Pending
    /\ outBand' = IF coll.isNull THEN Threw("TypeError")
                  ELSE computeTimeSeriesBands(ColumnMatrix(coll.value), 0)
    /\ UNCHANGED <<coll, outStatistics, outSummary, outPercentiles, outPercentile,
                   outBins>>

NextStats ==
    \/ (CallCalculateStatistics /\ UNCHANGED <<engineVars, probVars, binVars, bandVars, savingsVars, pathVars,
                     debounceVars>>)
    \/ (CallSummarize /\ UNCHANGED <<engineVars, probVars, binVars, bandVars, savingsVars, pathVars,
                     debounceVars>>)
    \/ (CallCalculatePercentiles /\ UNCHANGED <<engineVars, probVars, binVars, bandVars, savingsVars, pathVars,
                     debounceVars>>)
    \/ (CallPercentile /\ UNCHANGED <<engineVars, probVars, binVars, bandVars, savingsVars, pathVars,
                     debounceVars>>)
    \/ (CallBinDataOfColl /\ UNCHANGED <<engineVars, probVars, binVars, bandVars, savingsVars, pathVars,
                     debounceVars>>)
    \/ (CallBandOfColl /\ UNCHANGED <<engineVars, probVars, binVars, bandVars, savingsVars, pathVars,
                     debounceVars>>)

SpecStats == InitStats /\ [][NextStats]_vars

\* the collection is missing or has no element
NoData == coll.isNull \/ Len(coll.value) = 0

\* C12: on an empty or missing collection binData returns an empty
\* sequence of bins, and HistogramBinner.calculateStatistics and
\* Statistics.summarize return null; none of the three throws.
C12_NoDataResults ==
    NoData =>
        /\ outBins # Pending => outBins = Returned(<<>>)
        /\ outStatistics # Pending => outStatistics = Returned(Null)
        /\ outSummary # Pending => outSummary = Returned(Null)

C12_Witness ==
    /\ ~coll.isNull
    /\ Len(coll.value) = 0
    /\ outBins = Returned(<<>>)
    /\ outStatistics = Returned(Null)
    /\ outSummary = Returned(Null)

----------------------------------------------------------------------------
(* computeTimeSeriesBands applied to a matrix of trials x years *)

MaxRows == 3

BandValues == {Rat(-1, 2), Zero, R(2)}
RowLengths == {1, 2}

\* every matrix of at most MaxRows rows of n numbers each
Matrices(n) ==
    {ArrayOf([k \in 1 .. Len(rows) |-> ArrayOf(rows[k])]) :
        rows \in SeqsUpTo([1 .. n -> BandValues], MaxRows)}

\* years is at most the last index of the rows, as in useSimulation, where
\* the rows have timeHorizon + 1 elements
InitBands ==
    /\ InitEngine
    /\ PathIdle
    /\ Mounted
    /\ ProbIdle
    /\ BinIdle
    /\ StatIdle
    /\ SavingsIdle
    /\ \E n \in RowLengths :
          /\ matrix \in Matrices(n)
          /\ yearsArg \in -2 .. (n - 1)
    /\ bandsOut = Pending

CallComputeTimeSeriesBands ==
    /\ bandsOut = Pending
    /\ bandsOut' = computeTimeSeriesBands(matrix, yearsArg)
    /\ UNCHANGED <<matrix, yearsArg>>

NextBands ==
    CallComputeTimeSeriesBands
        /\ UNCHANGED <<engineVars, probVars, binVars, statVars, savingsVars, pathVars,
                     debounceVars>>

SpecBands == InitBands /\ [][NextBands]_vars

\* C13: for a matrix with at least one trial, the band of every year has
\* p5 <= p25 <= p50 <= p75 <= p95.
C13_BandsOrdered ==
    (bandsOut.kind = "returned" /\ matrix.length >= 1) =>
        \A y \in 0 .. yearsArg :
            LET band == bandsOut.value.at[y]
            IN  /\ RLe(band.p5, band.p25)
                /\ RLe(band.p25, band.p50)
                /\ RLe(band.p50, band.p75)
                /\ RLe(band.p75, band.p95)

C13_Witness ==
    /\ bandsOut.kind = "returned"
    /\ matrix.length = 3
    /\ yearsArg = 1
    /\ matrix.at[0].at[1] = R(2)
    /\ matrix.at[1].at[1] = Zero
    /\ matrix.at[2].at[1] = Rat(-1, 2)
    /\ bandsOut.value.at[1].p5 = Rat(-1, 2)
    /\ bandsOut.value.at[1].p50 = Zero
    /\ bandsOut.value.at[1].p95 = R(2)

----------------------------------------------------------------------------
(* Claims about the time series of a run, checked under Spec *)

\* a time-series run with at least one trial has returned and useSimulation
\* has built timeSeriesData from it
TimeSeriesBuilt ==
    /\ pc = "done"
    /\ mode = "timeSeries"
    /\ params.numSimulations >= 1
    /\ timeSeriesData.length >= 1

\* C14: in every time-series run each trial's yearly path holds 0 at
\* index 0, so the year-0 band of a run with at least one trial has
\* p5 = p25 = p50 = p75 = p95 = mean = 0.
C14_YearZeroIsZero ==
    /\ (pc = "done" /\ mode = "timeSeries") =>
          \A k \in DOMAIN stockPaths.at : stockPaths.at[k].at[0] = Zero
    /\ TimeSeriesBuilt =>
          LET band == timeSeriesData.at[0]
          IN  /\ band.p5 = Zero
              /\ band.p25 = Zero
              /\ band.p50 = Zero
              /\ band.p75 = Zero
              /\ band.p95 = Zero
              /\ band.mean = Zero

C14_Witness ==
    /\ TimeSeriesBuilt
    /\ params.numSimulations = 2
    /\ params.timeHorizon = 2
    /\ timeSeriesData.at[0].p50 = Zero
    /\ timeSeriesData.at[0].mean = Zero
    /\ RGt(timeSeriesData.at[2].p50, Zero)

\* column y of the stock paths of the run, in trial order
PathColumn(y) ==
    [k \in 1 .. stockPaths.length |-> stockPaths.at[k - 1].at[y]]

\* the sum of the elements of seq
RECURSIVE Total(_)
Total(seq) == IF seq = <<>> THEN Zero ELSE RAdd(Head(seq), Total(Tail(seq)))

\* C15: from the trials x (horizon + 1) matrix of a run with at least one
\* trial, exactly horizon + 1 band records are built, in ascending year
\* order; the record at position y has year = y, its percentiles are order
\* statistics of column y alone and its mean is that column's average, and
\* no field is undefined.
C15_OneBandPerYear ==
    TimeSeriesBuilt =>
        /\ timeSeriesData.length = params.timeHorizon + 1
        /\ DOMAIN timeSeriesData.at = 0 .. params.timeHorizon
        /\ \A y \in DOMAIN timeSeriesData.at :
              LET band == timeSeriesData.at[y]
                  n == params.numSimulations
              IN  /\ band.year = y
                  /\ band.p5 = OrderStat(PathColumn(y), (n * 5) \div 100)
                  /\ band.p25 = OrderStat(PathColumn(y), (n * 25) \div 100)
                  /\ band.p50 = OrderStat(PathColumn(y), (n * 50) \div 100)
                  /\ band.p75 = OrderStat(PathColumn(y), (n * 75) \div 100)
                  /\ band.p95 = OrderStat(PathColumn(y), (n * 95) \div 100)
                  /\ band.mean = RDiv(Total(PathColumn(y)), R(n))
                  /\ \A f \in {"p5", "p25", "p50", "p75", "p95", "mean"} :
                        band[f] # Undefined /\ band[f].den # 0

C15_Witness ==
    /\ TimeSeriesBuilt
    /\ params.numSimulations = 2
    /\ params.timeHorizon = 2
    /\ timeSeriesData.length = 3
    /\ timeSeriesData.at[1].year = 1
    /\ timeSeriesData.at[2].year = 2
    /\ RLt(timeSeriesData.at[1].p5, timeSeriesData.at[1].p50)
    /\ timeSeriesData.at[2].p50 # timeSeriesData.at[1].p50

\* the value of paying p every month for n months at monthly rate m, with
\* interest credited monthly: the sum of p * (1 + m)^k for k = 0 .. n-1
RECURSIVE AnnuityValue(_, _, _)
AnnuityValue(p, m, n) ==
    IF n = 0 THEN Zero
    ELSE RAdd(AnnuityValue(p, m, n - 1), RMul(p, RPow(RAdd(One, m), n - 1)))

\* the mortgage-savings value in closed form: p * n at rate 0, and
\* p * ((1 + m)^n - 1) / m at a nonzero monthly rate m
SavingsValue(p, m, n) ==
    IF m = Zero THEN RMul(p, R(n))
    ELSE RDiv(RMul(p, RSub(RPow(RAdd(One, m), n), One)), m)

\* C16: the band of year y is paired with mortgagePath[y], which is the
\* mortgage-savings value of the full monthly surplus over y years (0 at
\* year 0, and each year the previous value compounded over twelve months
\* plus twelve compounded payments); at y = horizon it equals every entry
\* of the mortgage outcomes.
C16_MortgagePathPairing ==
    (pc = "done" /\ mode = "timeSeries" /\ timeSeriesData.length >= 1) =>
        /\ DOMAIN timeSeriesData.at = 0 .. params.timeHorizon
        /\ \A y \in DOMAIN timeSeriesData.at :
              /\ timeSeriesData.at[y].mortgage = mortgagePath.at[y]
              /\ mortgagePath.at[y] =
                    SavingsValue(R(params.monthlyInvestment),
                                 RDiv(params.mortgageRate, R(12)), 12 * y)
              /\ y >= 1 =>
                    mortgagePath.at[y] =
                        RAdd(RMul(mortgagePath.at[y - 1],
                                  RPow(RAdd(One, RDiv(params.mortgageRate, R(12))), 12)),
                             AnnuityValue(R(params.monthlyInvestment),
                                          RDiv(params.mortgageRate, R(12)), 12))
        /\ timeSeriesData.at[0].mortgage = Zero
        /\ \A k \in DOMAIN mortgageResults.at :
              mortgageResults.at[k] = timeSeriesData.at[params.timeHorizon].mortgage

C16_Witness ==
    /\ pc = "done"
    /\ mode = "timeSeries"
    /\ params.numSimulations = 2
    /\ params.timeHorizon = 1
    /\ params.mortgageRate = R(12)
    /\ params.monthlyInvestment = 100
    /\ timeSeriesData.length = 2
    /\ timeSeriesData.at[1].mortgage = R(409500)
    /\ mortgageResults.at[1] = R(409500)

----------------------------------------------------------------------------
(* calculateMortgageSavingsValue applied to one payment, horizon and rate *)

MaxYears == 10

SavingsPayments == {Zero, R(100), R(300), R(2500), R(10000)}
SavingsRates == {Zero, R(12), R(24)}

\* (1 + rate/12)^(12 * years) * payment has to stay inside 32-bit integers
SavingsInputs ==
    {s \in [monthlyPayment : SavingsPayments, years : 0 .. MaxYears,
            annualRate : SavingsRates] :
        s.annualRate = Zero \/ (s.years <= 1 /\ RLe(s.monthlyPayment, R(300)))}

InitSavings ==
    /\ InitEngine
    /\ PathIdle
    /\ Mounted
    /\ ProbIdle
    /\ BinIdle
    /\ StatIdle
    /\ BandIdle
    /\ \E s \in SavingsInputs :
          /\ payment = s.monthlyPayment
          /\ yearsIn = s.years
          /\ rateIn = s.annualRate
    /\ savingsOut = Pending

CallCalculateMortgageSavingsValue ==
    /\ savingsOut = Pending
    /\ savingsOut' = Returned(calculateMortgageSavingsValue(payment, yearsIn, rateIn))
    /\ UNCHANGED <<payment, yearsIn, rateIn>>

NextSavings ==
    CallCalculateMortgageSavingsValue
        /\ UNCHANGED <<engineVars, probVars, binVars, statVars, bandVars, pathVars,
                     debounceVars>>

SpecSavings == InitSavings /\ [][NextSavings]_vars

\* C17: calculateMortgageSavingsValue returns monthlyPayment * (years * 12)
\* when the annual rate is 0, and for a nonzero annual rate r it returns
\* monthlyPayment * ((1 + r/12)^(12 * years) - 1) / (r/12), the value of
\* the monthly payments with monthly compounding (compared with the sum of
\* the compounded payments for horizons of up to one year).
C17_SavingsFormula ==
    savingsOut.kind = "returned" =>
        /\ rateIn = Zero =>
              savingsOut.value = RMul(payment, R(yearsIn * 12))
        /\ rateIn # Zero =>
              LET m == RDiv(rateIn, R(12))
                  growth == RPow(RAdd(One, m), 12 * yearsIn)
              IN  savingsOut.value = RDiv(RMul(payment, RSub(growth, One)), m)
        /\ yearsIn <= 1 =>
              savingsOut.value =
                  AnnuityValue(payment, RDiv(rateIn, R(12)), 12 * yearsIn)

C17_Witness ==
    /\ payment = R(10000)
    /\ yearsIn = 10
    /\ rateIn = Zero
    /\ savingsOut = Returned(R(1200000))

\* C18: within one run every entry of the mortgage outcomes is the same
\* value, the mortgage-savings value of the monthly surplus over the
\* horizon at the mortgage rate; it depends on nothing else (not on the
\* return paths drawn, not on the allocation).
C18_MortgageOutcomeConstant ==
    pc \in {"loop", "done"} =>
        \A k \in DOMAIN mortgageResults.at :
            /\ mortgageResults.at[k] = mortgageResults.at[0]
            /\ mortgageResults.at[k] =
                  SavingsValue(R(params.monthlyInvestment),
                               RDiv(params.mortgageRate, R(12)),
                               12 * params.timeHorizon)

C18_Witness ==
    /\ pc = "done"
    /\ params.numSimulations = 2
    /\ params.stockAllocation = 100
    /\ params.timeHorizon = 2
    /\ drawn[1] # drawn[2]
    /\ stockResults.at[0] # stockResults.at[1]
    /\ mortgageResults.at[0] = R(2400)
    /\ mortgageResults.at[1] = R(2400)

----------------------------------------------------------------------------
(* Claims about the percentile convention, checked under SpecStats *)

\* the nearest-rank percentile of the collection: the element of rank
\* floor(n * pct / 100), at most n - 1, of its ascending order
NearestRank(pct) ==
    LET n == Len(coll.value)
    IN  OrderStat(coll.value, MinOf((n * pct) \div 100, n - 1))

\* the record r reports the nearest-rank value for each of the five percentiles
ReportsNearestRank(r) ==
    /\ r.p5 = NearestRank(5)
    /\ r.p25 = NearestRank(25)
    /\ r.p50 = NearestRank(50)
    /\ r.p75 = NearestRank(75)
    /\ r.p95 = NearestRank(95)

\* C19: for a non-empty collection and p in {0.05, 0.25, 0.50, 0.75, 0.95},
\* Statistics.percentile, HistogramBinner.calculatePercentiles and
\* computeTimeSeriesBands all report the same value, the element of rank
\* floor(n * p) (clamped to n - 1) of the ascending order, which is always
\* an element of the collection.
C19_SameNearestRank ==
    ~NoData =>
        /\ outPercentile # Pending =>
              outPercentile.kind = "returned" /\ ReportsNearestRank(outPercentile.value)
        /\ outPercentiles # Pending =>
              outPercentiles.kind = "returned" /\ ReportsNearestRank(outPercentiles.value)
        /\ outBand # Pending =>
              outBand.kind = "returned" /\ ReportsNearestRank(outBand.value.at[0])

C19_Witness ==
    /\ ~coll.isNull
    /\ Len(coll.value) = 21
    /\ outPercentile.kind = "returned"
    /\ outPercentiles.kind = "returned"
    /\ outBand.kind = "returned"
    /\ outPercentile.value = outPercentiles.value
    /\ outPercentiles.value.p5 = One
    /\ outPercentiles.value.p50 = R(10)
    /\ outPercentiles.value.p95 = R(19)
    /\ outBand.value.at[0].p95 = R(19)

\* C20: for a non-empty collection the median field of the summary is the
\* nearest-rank 50th percentile, the element of rank floor(n * 0.5) of the
\* ascending order, in Statistics.summarize as well as in
\* HistogramBinner.calculateStatistics, collections of even length included.
C20_MedianIsNearestRank ==
    ~NoData =>
        /\ outStatistics # Pending =>
              outStatistics.value.median = NearestRank(50)
        /\ outSummary # Pending =>
              outSummary.value.median = NearestRank(50)

----------------------------------------------------------------------------
(* Claims about the stock valuators, checked under Spec *)

\* the stock value after the years of rets: each year the contribution c is
\* added and the sum is multiplied by 1 + that year's return
RECURSIVE Grown(_, _)
Grown(c, rets) ==
    IF rets = <<>> THEN Zero
    ELSE LET n == Len(rets)
         IN  RMul(RAdd(Grown(c, SubSeq(rets, 1, n - 1)), c), RAdd(One, rets[n]))

\* the stock value of a path after tax: 37.84 % of the gain over the
\* contributions c per year, nothing on a loss
AfterTax(c, rets) ==
    LET final == Grown(c, rets)
        contributed == RMul(c, R(Len(rets)))
        gain == RSub(final, contributed)
    IN  IF RGt(gain, Zero)
        THEN RSub(final, RMul(Rat(3784, 10000), gain))
        ELSE final

\* the stock outcome of the run's parameters for the return path rets
StockOutcome(rets) ==
    LET a == Rat(params.stockAllocation, 100)
        monthly == R(params.monthlyInvestment)
    IN  RAdd(AfterTax(RMul(RMul(monthly, a), R(12)), rets),
             SavingsValue(RMul(monthly, RSub(One, a)),
                          RDiv(params.mortgageRate, R(12)),
                          12 * params.timeHorizon))

\* C21: calculateStockScenario's result is determined by its arguments:
\* the yearly contributions of monthly * a * 12 compounded by the path's
\* returns, less 37.84 % of the gain (nothing on a loss), plus the
\* mortgage-savings value of monthly * (1 - a); two trials with the same
\* path have the same outcome.
C21_StockScenarioDetermined ==
    (pc \in {"loop", "done"} /\ mode = "plain") =>
        /\ \A k \in DOMAIN stockResults.at :
              stockResults.at[k] = StockOutcome(drawn[k + 1])
        /\ \A j, k \in DOMAIN stockResults.at :
              drawn[j + 1] = drawn[k + 1] => stockResults.at[j] = stockResults.at[k]

C21_Witness ==
    /\ pc = "done"
    /\ mode = "plain"
    /\ params.monthlyInvestment = 100
    /\ params.stockAllocation = 50
    /\ params.mortgageRate = Zero
    /\ params.timeHorizon = 2
    /\ params.numSimulations = 2
    /\ drawn = << <<One, One>>, <<One, Rat(-1, 2)>> >>
    /\ stockResults.at[0] = Rat(389184, 100)
    /\ stockResults.at[1] = R(2100)

\* C22: with allocation 1 (100 %) the mortgage-savings term of the stock
\* scenario is 0 for every trial, horizon and mortgage rate, rate 0
\* included, so every stock outcome is the after-tax stock value alone.
C22_FullAllocationNoSavings ==
    (pc \in {"loop", "done"} /\ params.stockAllocation = 100) =>
        \A k \in DOMAIN stockResults.at :
            /\ calculateMortgageSavingsValue(
                    RMul(R(params.monthlyInvestment), RSub(One, Rat(100, 100))),
                    params.timeHorizon, params.mortgageRate) = Zero
            /\ stockResults.at[k] =
                  AfterTax(RMul(R(params.monthlyInvestment), R(12)), drawn[k + 1])

C22_Witness ==
    /\ pc = "done"
    /\ params.stockAllocation = 100
    /\ params.mortgageRate = R(12)
    /\ params.timeHorizon = 1
    /\ params.monthlyInvestment = 100
    /\ params.numSimulations = 2
    /\ drawn = << <<One>>, <<Zero>> >>
    /\ stockResults.at[0] = Rat(194592, 100)
    /\ stockResults.at[1] = R(1200)

\* C23: trial k's stock outcome (and, in time-series mode, row k of the
\* yearly values) is a function of the run's parameters and of the k-th
\* generated return path alone, and it is stored at the index of that
\* trial's mortgage outcome: after i iterations exactly the indices
\* 0 .. i-1 of every result array are assigned.
C23_TrialsIndependent ==
    pc \in {"loop", "done"} =>
        /\ Len(drawn) = i
        /\ DOMAIN stockResults.at = 0 .. (i - 1)
        /\ DOMAIN mortgageResults.at = 0 .. (i - 1)
        /\ \A k \in DOMAIN stockResults.at :
              stockResults.at[k] = StockOutcome(drawn[k + 1])
        /\ mode = "timeSeries" =>
              /\ DOMAIN stockPaths.at = 0 .. (i - 1)
              /\ \A k \in DOMAIN stockPaths.at :
                    /\ DOMAIN stockPaths.at[k].at = 0 .. params.timeHorizon
                    /\ \A y \in 0 .. params.timeHorizon :
                          stockPaths.at[k].at[y] =
                              Grown(RMul(RMul(R(params.monthlyInvestment),
                                              Rat(params.stockAllocation, 100)),
                                         R(12)),
                                    SubSeq(drawn[k + 1], 1, y))

C23_Witness ==
    /\ pc = "done"
    /\ mode = "timeSeries"
    /\ params.numSimulations = 2
    /\ params.timeHorizon = 2
    /\ params.stockAllocation = 50
    /\ params.monthlyInvestment = 100
    /\ drawn = << <<One, One>>, <<Zero, Rat(-1, 2)>> >>
    /\ stockPaths.at[0].at[2] = R(3600)
    /\ stockPaths.at[1].at[2] = R(600)
    /\ stockResults.at[0] # stockResults.at[1]
    /\ mortgageResults.at[0] = mortgageResults.at[1]

\* the observations of the historical return dataset of the engine
Observations == {Dataset[k] : k \in 1 .. Len(Dataset)}

\* C24: with the non-empty dataset, every return path generated in a run
\* has exactly timeHorizon elements, each of them an observation of the
\* dataset, and the engine's dataset is the one it was constructed with in
\* every state of every run.
C24_PathsSampleDataset ==
    /\ returns = Dataset
    /\ \A k \in 1 .. Len(drawn) :
          /\ Len(drawn[k]) = params.timeHorizon
          /\ \A y \in 1 .. Len(drawn[k]) : drawn[k][y] \in Observations

\* a path that repeats one observation and one with the others, in a run
\* that has returned
C24_Witness ==
    /\ pc = "done"
    /\ params.timeHorizon = 2
    /\ Len(drawn) = 2
    /\ drawn[1] = <<One, One>>
    /\ drawn[2] = <<Zero, Rat(-1, 2)>>
    /\ returns = Dataset

----------------------------------------------------------------------------
(* generateReturnPath on engines built from different datasets *)

MaxPathYears == 3

PathDatasets ==
    {<<>>, <<Zero>>, <<One>>, <<Zero, One>>, <<Rat(-1, 2), One>>, Dataset}

InitPath ==
    /\ returns \in PathDatasets
    /\ params = [monthlyInvestment |-> 100, timeHorizon |-> 1, mortgageRate |-> Zero,
                 stockAllocation |-> 50, numSimulations |-> 1]
    /\ mode = "plain"
    /\ EngineIdle
    /\ ProbIdle
    /\ BinIdle
    /\ StatIdle
    /\ BandIdle
    /\ SavingsIdle
    /\ Mounted
    /\ pathYears \in -1 .. MaxPathYears
    /\ pathOut = Pending

\* new Array(years) throws a RangeError for a negative length
CallGenerateReturnPath ==
    /\ pathOut = Pending
    /\ IF pathYears < 0
       THEN pathOut' = Threw("RangeError")
       ELSE \E path \in generateReturnPath(pathYears) : pathOut' = Returned(path)
    /\ UNCHANGED pathYears

NextPath ==
    CallGenerateReturnPath
        /\ UNCHANGED <<engineVars, probVars, binVars, statVars, bandVars, savingsVars,
                     debounceVars>>

SpecPath == InitPath /\ [][NextPath]_vars

\* C25: on an engine built from a dataset with no observation,
\* generateReturnPath reports a failure instead of returning a path.
C25_EmptyDatasetFails ==
    (Len(returns) = 0 /\ pathOut # Pending) => pathOut.kind = "threw"

----------------------------------------------------------------------------
(* Claims about the time-series valuator and the assembled result *)

\* C26: for every trial of a time-series run, calculateStockScenarioWithPath
\* returned the finalValue that calculateStockScenario returns for the same
\* arguments, and yearlyValues with timeHorizon + 1 entries, entry y being
\* the untaxed stock value accumulated after y years.
C26_WithPathAgrees ==
    (pc \in {"loop", "done"} /\ mode = "timeSeries") =>
        \A k \in DOMAIN stockResults.at :
            /\ stockResults.at[k] =
                  calculateStockScenario(R(params.monthlyInvestment),
                                         Rat(params.stockAllocation, 100),
                                         drawn[k + 1], params.mortgageRate,
                                         params.timeHorizon)
            /\ stockPaths.at[k].length = params.timeHorizon + 1
            /\ DOMAIN stockPaths.at[k].at = 0 .. params.timeHorizon
            /\ \A y \in 0 .. params.timeHorizon :
                  stockPaths.at[k].at[y] =
                      Grown(RMul(RMul(R(params.monthlyInvestment),
                                      Rat(params.stockAllocation, 100)),
                                 R(12)),
                            SubSeq(drawn[k + 1], 1, y))

C26_Witness ==
    /\ pc = "done"
    /\ mode = "timeSeries"
    /\ params.monthlyInvestment = 100
    /\ params.stockAllocation = 50
    /\ params.mortgageRate = Zero
    /\ params.timeHorizon = 2
    /\ params.numSimulations = 1
    /\ drawn = << <<One, One>> >>
    /\ stockResults.at[0] = Rat(389184, 100)
    /\ stockPaths.at[0].at[1] = R(1200)
    /\ stockPaths.at[0].at[2] = R(3600)

\* the trials of the returned run whose stock outcome does not strictly
\* exceed their mortgage outcome
NotStockWins ==
    {k \in 0 .. (params.numSimulations - 1) :
        ~RGt(StockOutcome(drawn[k + 1]), mortgageResults.at[k])}

\* C27: in the result assembled from a run with at least one trial,
\* probabilityStockWins + probabilityMortgageWins = 1, and
\* probabilityMortgageWins is the fraction of trials whose stock outcome
\* does not strictly exceed the mortgage outcome, ties included; with
\* allocation 0 the two are 0 and 1.
C27_WinProbabilities ==
    (comparison # Pending /\ params.numSimulations >= 1) =>
        LET c == comparison.value
        IN  /\ RAdd(c.probabilityStockWins, c.probabilityMortgageWins) = One
            /\ c.probabilityMortgageWins =
                  Rat(Cardinality(NotStockWins), params.numSimulations)
            /\ params.stockAllocation = 0 =>
                  /\ c.probabilityStockWins = Zero
                  /\ c.probabilityMortgageWins = One

C27_Witness ==
    /\ comparison # Pending
    /\ params.numSimulations = 2
    /\ params.stockAllocation = 0
    /\ params.timeHorizon = 1
    /\ stockResults.at[0] = mortgageResults.at[0]
    /\ comparison.value.probabilityStockWins = Zero
    /\ comparison.value.probabilityMortgageWins = One

----------------------------------------------------------------------------
(* Claims about the arguments of the statistics functions, under SpecStats *)

----------------------------------------------------------------------------
(***************************************************************************)
(* useDebounce(sliderValue, 150) inside InputPanel.  React runs the        *)
(* effects of a render caused by a change event before the event ends,     *)
(* and runs the effects of an earlier render before it renders again.      *)
(***************************************************************************)

InitDebounce ==
    /\ returns = Dataset
    /\ params = [monthlyInvestment |-> 100, timeHorizon |-> 1, mortgageRate |-> Zero,
                 stockAllocation |-> 50, numSimulations |-> 1]
    /\ mode = "plain"
    /\ EngineIdle
    /\ ProbIdle
    /\ BinIdle
    /\ StatIdle
    /\ BandIdle
    /\ SavingsIdle
    /\ PathIdle
    /\ Mounted

RunEffect_NotForwarded ==
    /\ stockAllocation' = stockAllocation
    /\ effectDeps' = debouncedValue
    /\ emitted' = emitted

\* InputPanel's effect: onStockAllocationChange(debouncedSliderValue), which
\* is useSimulation's setStockAllocation
RunEffect ==
    /\ stockAllocation' = debouncedValue
    /\ effectDeps' = debouncedValue
    /\ emitted' = emitted \cup {debouncedValue}

\* the effect is due when debouncedSliderValue differs from the value the
\* effect last ran with
FlushPassiveEffects ==
    IF effectDeps # debouncedValue
    THEN RunEffect
    ELSE UNCHANGED <<stockAllocation, effectDeps, emitted>>

\* handleSliderChange: setSliderValue(v); the render it causes; the cleanup
\* of useDebounce's previous effect and the new effect.  Setting the state
\* to the value it has causes no render.
SlideTo(v) ==
    /\ v # sliderValue
    /\ FlushPassiveEffects
    /\ sliderValue' = v
    /\ shown' = shown \cup {v}
    /\ timers' = setTimeout(clearTimeout(timers, handler), v)
    /\ handler' = [value |-> v, elapsed |-> 0]
    /\ UNCHANGED debouncedValue

Aged(t) == IF t.elapsed < Delay THEN [t EXCEPT !.elapsed = @ + 1] ELSE t

\* one millisecond passes
Tick ==
    /\ \E t \in timers : t.elapsed < Delay
    /\ timers' = {Aged(t) : t \in timers}
    /\ handler' = Aged(handler)
    /\ UNCHANGED <<stockAllocation, sliderValue, debouncedValue, effectDeps, shown,
                   emitted>>

\* the callback of a timeout whose delay has passed: setDebouncedValue(value)
Expire ==
    \E t \in timers :
        /\ t.elapsed = Delay
        /\ FlushPassiveEffects
        /\ timers' = timers \ {t}
        /\ debouncedValue' = t.value
        /\ UNCHANGED <<sliderValue, handler, shown>>

\* the effects of the render that setDebouncedValue caused
ForwardEffect ==
    /\ effectDeps # debouncedValue
    /\ RunEffect
    /\ UNCHANGED <<sliderValue, debouncedValue, timers, handler, shown>>

NextDebounce ==
    \/ ((\E v \in SliderPositions : SlideTo(v))
            /\ UNCHANGED <<engineVars, probVars, binVars, statVars, bandVars, savingsVars,
                           pathVars>>)
    \/ (Tick /\ UNCHANGED <<engineVars, probVars, binVars, statVars, bandVars, savingsVars,
                     pathVars>>)
    \/ (Expire /\ UNCHANGED <<engineVars, probVars, binVars, statVars, bandVars, savingsVars,
                     pathVars>>)
    \/ (ForwardEffect
            /\ UNCHANGED <<engineVars, probVars, binVars, statVars, bandVars, savingsVars,
                           pathVars>>)

SpecDebounce == InitDebounce /\ [][NextDebounce]_vars

\* time passes, the browser runs the callback of a timeout that is due, and
\* React runs the effects of a render; nothing obliges the user to move the
\* slider
SpecDebounceLive ==
    /\ SpecDebounce
    /\ WF_debounceVars(Tick)
    /\ WF_debounceVars(Expire)
    /\ WF_debounceVars(ForwardEffect)

----------------------------------------------------------------------------
(* Claims about the debounced slider, under SpecDebounce and SpecDebounceLive *)

\* C29: the debounced value changes only in the step of a timeout whose
\* delay has passed, and only to the value that timeout captured, which is
\* the slider value then and has been the slider value since the timeout was
\* started, because every change of the slider value removes the pending
\* timeout and starts one for the new value; onStockAllocationChange is
\* called only with the debounced value, and the stock allocation changes
\* only to it.
C29_DebounceEmitsOnlyHeldValue ==
    [][ /\ debouncedValue' # debouncedValue =>
              /\ sliderValue' = sliderValue
              /\ \E t \in timers :
                    /\ t.elapsed = Delay
                    /\ t \notin timers'
                    /\ t.value = sliderValue
                    /\ debouncedValue' = t.value
        /\ sliderValue' # sliderValue =>
              /\ timers' = {[value |-> sliderValue', elapsed |-> 0]}
              /\ debouncedValue' = debouncedValue
        /\ emitted' \subseteq emitted \cup {debouncedValue}
        /\ stockAllocation' \in {stockAllocation, debouncedValue}
      ]_vars

\* the slider has shown 0, which was replaced before its delay had passed
\* and was never passed on, and 100, which was held and passed on
C29_Witness ==
    /\ shown = {0, 50, 100}
    /\ emitted = {50, 100}
    /\ sliderValue = 100
    /\ debouncedValue = 100
    /\ stockAllocation = 100

\* C30: if the slider value stops changing, then from some time on the
\* debounced value and the stock allocation equal it, and
\* onStockAllocationChange has been called with it.
C30_SliderEventuallyApplied ==
    \A v \in SliderPositions :
        <>[](sliderValue = v) =>
            <>[](debouncedValue = v /\ stockAllocation = v /\ v \in emitted)

\* the slider was moved to 0 and left there; the timeout has run and the
\* value has been passed on
C30_Witness ==
    /\ sliderValue = 0
    /\ timers = {}
    /\ debouncedValue = 0
    /\ effectDeps = 0
    /\ stockAllocation = 0
    /\ 0 \in emitted

============================================================================
